---- MODULE Spec2Model ----
(***************************************************************************)
(* UziDatabaseApp (static/script.js): the paginated, searchable song view  *)
(* and the auto-update monitor, as a state machine.  Every await in the    *)
(* script is a suspension point: the synchronous part of a handler is one  *)
(* action, and the continuation that runs when the fetch settles is        *)
(* another.  Pending fetches are kept in the state; they settle in any     *)
(* order.                                                                  *)
(***************************************************************************)
EXTENDS Integers, Sequences, FiniteSets, Bags, TLC

\* ---------------------------------------------------------------- bounds
MaxTotalPages == 2      \* largest total_pages a response reports
MaxInFlight == 2        \* pending /api/songs fetches
MaxStatusInFlight == 2  \* pending /api/auto-update/status fetches
MaxTimeouts == 1        \* pending 2-second timers of accepted triggers
MaxFailStreak == 2      \* consecutive failed status fetches that are counted

\* ------------------------------------------------------------- constants
perPage == 50
Collections == {"current", "all", "removed"}
\* dataset.collection of a click target that carries no data-collection
Undefined == "undefined"
Null == "null"
IntervalId == "interval"
\* the texts typed in the search box
Texts == {<< >>, <<" ">>, <<" ", "a", " ">>}
Empty == << >>
Origins == {"ambient", "delayed", "refresh"}
FailureKinds == {"transport", "http"}

VARIABLES
    \* fields of UziDatabaseApp
    currentCollection, currentPage, totalPages, currentSearchQuery,
    autoUpdateInterval,
    \* the document
    searchInput, searchInfo, pageInfo, prevDisabled, nextDisabled, tbody,
    loading, triggerDisabled, statusShown, notification, statsShown,
    \* the event loop: pending fetches and timers
    loads, statsPending, statusPending, triggerPending, timeouts,
    \* history: the last handler that ran, and facts about the run so far
    lastOp, latest, failStreak

viewFields == <<currentCollection, currentPage, totalPages, currentSearchQuery>>
viewDom == <<searchInput, searchInfo, pageInfo, prevDisabled, nextDisabled,
             tbody, loading>>
viewVars == <<viewFields, viewDom, loads, latest>>
jobVars == <<autoUpdateInterval, triggerDisabled, statusShown, notification,
             statsShown, statsPending, statusPending, triggerPending,
             timeouts, failStreak>>
vars == <<viewVars, jobVars, lastOp>>

\* ------------------------------------------------------------ pure parts
\* String.prototype.trim on a sequence of characters
RECURSIVE trimStart(_)
trimStart(s) == IF s # Empty /\ Head(s) = " " THEN trimStart(Tail(s)) ELSE s

RECURSIVE trimEnd(_)
trimEnd(s) ==
    IF s # Empty /\ s[Len(s)] = " "
    THEN trimEnd(SubSeq(s, 1, Len(s) - 1))
    ELSE s

trim(s) == trimEnd(trimStart(s))

Max(a, b) == IF a >= b THEN a ELSE b

\* the URL loadSongs builds: the search parameter is sent only when the
\* trimmed query is non-empty (Empty stands for "no search parameter")
Request(collection, page, searchQuery) ==
    [collection |-> collection, page |-> page, per_page |-> perPage,
     search |-> trim(searchQuery)]

\* The bodies the server may answer a request with.  The server is not part
\* of the script: it reports any total_pages, a page within
\* [1, max(total_pages, 1)] and the search it was asked for.  The songs and
\* their count are opaque.
Responses(req) ==
    {[page |-> x[1], total_pages |-> x[2], search_query |-> req.search] :
        x \in {y \in (1..Max(MaxTotalPages, 1)) \X (0..MaxTotalPages) :
                  y[1] <= Max(y[2], 1)}}

\* The bodies of /api/auto-update/status.  displayAutoUpdateStatus reads
\* enabled and in_progress (and the dates, which are only formatted);
\* last_ok is the outcome of the last run, which the script never reads.
Statuses == [enabled : BOOLEAN, in_progress : BOOLEAN, last_ok : BOOLEAN]
NoStatus == [enabled |-> FALSE, in_progress |-> FALSE, last_ok |-> FALSE]

\* a value of the history variable lastOp
Op(name, arg, status) == [op |-> name, arg |-> arg, status |-> status]

\* the value of the history variable latest when the most recently issued
\* load has settled
NoLoad == [collection |-> "", page |-> 0, per_page |-> 0, search |-> Empty]

StatusCount == statusPending["ambient"] + statusPending["delayed"]
                 + statusPending["refresh"]

\* ------------------------------------------------------------------ Init
\* The state when the constructor returns: the fields of lines 3-8, then
\* loadSongs('current', 1), updateStats() and startAutoUpdateMonitoring()
\* have each run up to their first await.  The markup is not part of the
\* script: the buttons start enabled, which allows every click that a
\* button starting disabled allows.
NoInfo == [kind |-> "none", query |-> Empty]
NoPageInfo == <<0, 0>>

Init ==
    /\ currentCollection = "current"
    /\ currentPage = 1
    /\ totalPages = 1
    /\ currentSearchQuery = Empty
    /\ autoUpdateInterval = IntervalId
    /\ searchInput = Empty
    /\ searchInfo = NoInfo
    /\ pageInfo = NoPageInfo
    /\ prevDisabled = FALSE
    /\ nextDisabled = FALSE
    /\ tbody = "initial"
    /\ loading = TRUE
    /\ triggerDisabled = FALSE
    /\ statusShown = "initial"
    /\ notification = "none"
    /\ statsShown = FALSE
    /\ loads = SetToBag({Request("current", 1, Empty)})
    /\ statsPending = 1
    /\ statusPending = [o \in Origins |-> IF o = "ambient" THEN 1 ELSE 0]
    /\ triggerPending = 0
    /\ timeouts = 0
    /\ lastOp = Op("constructor", "", NoStatus)
    /\ latest = Request("current", 1, Empty)
    /\ failStreak = 0

\* --------------------------------------------------------- the song view
\* loadSongs up to its await: showLoading(true), then the fetch is pending
loadSongs(collection, page, searchQuery) ==
    /\ BagCardinality(loads) < MaxInFlight
    /\ loading' = TRUE
    /\ loads' = loads (+) SetToBag({Request(collection, page, searchQuery)})
    /\ latest' = Request(collection, page, searchQuery)

\* whether a tab carries the collection, so that
\* querySelector(`[data-collection="${collection}"]`) finds an element
hasTab(collection) == collection \in Collections

\* switchCollection that keeps the active search
switchCollection_KeepsSearch(collection) ==
    /\ currentCollection' = collection
    /\ currentPage' = 1
    /\ IF hasTab(collection)
       THEN /\ searchInput' = Empty
            /\ searchInfo' = NoInfo
            /\ loadSongs(collection, currentPage', Empty)
       ELSE UNCHANGED <<searchInput, searchInfo, loading, loads, latest>>
    /\ UNCHANGED <<currentSearchQuery, totalPages, pageInfo, prevDisabled,
                   nextDisabled, tbody>>

switchCollection(collection) ==
    /\ currentCollection' = collection
    /\ currentPage' = 1
    /\ currentSearchQuery' = Empty
    /\ IF hasTab(collection)
       THEN /\ searchInput' = Empty
            /\ searchInfo' = NoInfo
            /\ loadSongs(collection, currentPage', Empty)
       ELSE \* querySelector returns null: classList of null throws
            UNCHANGED <<searchInput, searchInfo, loading, loads, latest>>
    /\ UNCHANGED <<totalPages, pageInfo, prevDisabled, nextDisabled, tbody>>

SwitchCollection(collection) ==
    /\ switchCollection(collection)
    /\ lastOp' = Op("switchCollection", collection, NoStatus)
    /\ UNCHANGED jobVars

\* the guard of prev-btn, off by one
canPrev_OffByOne == currentPage >= 1

canPrev == currentPage > 1

\* the guard of next-btn, off by one
canNext_OffByOne == currentPage <= totalPages

canNext == currentPage < totalPages

PrevPage ==
    /\ ~prevDisabled
    /\ IF canPrev
       THEN /\ currentPage' = currentPage - 1
            /\ loadSongs(currentCollection, currentPage', currentSearchQuery)
       ELSE UNCHANGED <<currentPage, loading, loads, latest>>
    /\ lastOp' = Op("prevPage", IF canPrev THEN "moved" ELSE "noop", NoStatus)
    /\ UNCHANGED <<currentCollection, totalPages, currentSearchQuery,
                   searchInput, searchInfo, pageInfo, prevDisabled,
                   nextDisabled, tbody, jobVars>>

\* a next-btn handler that drops the active search
NextPage_DropsSearch ==
    /\ ~nextDisabled
    /\ IF canNext
       THEN /\ currentPage' = currentPage + 1
            /\ loadSongs(currentCollection, currentPage', Empty)
       ELSE UNCHANGED <<currentPage, loading, loads, latest>>
    /\ lastOp' = Op("nextPage", IF canNext THEN "moved" ELSE "noop", NoStatus)
    /\ UNCHANGED <<currentCollection, totalPages, currentSearchQuery,
                   searchInput, searchInfo, pageInfo, prevDisabled,
                   nextDisabled, tbody, jobVars>>

NextPage ==
    /\ ~nextDisabled
    /\ IF canNext
       THEN /\ currentPage' = currentPage + 1
            /\ loadSongs(currentCollection, currentPage', currentSearchQuery)
       ELSE UNCHANGED <<currentPage, loading, loads, latest>>
    /\ lastOp' = Op("nextPage", IF canNext THEN "moved" ELSE "noop", NoStatus)
    /\ UNCHANGED <<currentCollection, totalPages, currentSearchQuery,
                   searchInput, searchInfo, pageInfo, prevDisabled,
                   nextDisabled, tbody, jobVars>>

clearSearch ==
    /\ currentSearchQuery' = Empty
    /\ currentPage' = 1
    /\ searchInput' = Empty
    /\ searchInfo' = NoInfo
    /\ loadSongs(currentCollection, currentPage', Empty)
    /\ UNCHANGED <<currentCollection, totalPages, pageInfo, prevDisabled,
                   nextDisabled, tbody>>

ClearSearch ==
    /\ clearSearch
    /\ lastOp' = Op("clearSearch", "", NoStatus)
    /\ UNCHANGED jobVars

\* an else branch of performSearch that returns without clearSearch()
performSearchEmpty_NoReload ==
    /\ currentSearchQuery' = Empty
    /\ currentPage' = 1
    /\ UNCHANGED <<currentCollection, totalPages, searchInput, searchInfo,
                   pageInfo, prevDisabled, nextDisabled, tbody, loading,
                   loads, latest>>

\* the else branch of performSearch: the trimmed text is empty
performSearchEmpty == clearSearch

performSearch(text) ==
    LET searchQuery == trim(text) IN
    IF searchQuery # Empty
    THEN /\ currentSearchQuery' = searchQuery
         /\ currentPage' = 1
         /\ loadSongs(currentCollection, currentPage', searchQuery)
         /\ searchInput' = text
         /\ UNCHANGED <<currentCollection, totalPages, searchInfo, pageInfo,
                        prevDisabled, nextDisabled, tbody>>
    ELSE performSearchEmpty

\* the user leaves text in the search box and clicks search-btn or presses
\* Enter
PerformSearch(text) ==
    /\ performSearch(text)
    /\ lastOp' = Op("performSearch", IF trim(text) = Empty THEN "empty" ELSE "text", NoStatus)
    /\ UNCHANGED jobVars

\* the rows of data.songs, or the "No songs found" row
displaySongs(data) == tbody' = "songs"

updatePagination(data) ==
    /\ totalPages' = data.total_pages
    /\ currentPage' = data.page
    /\ pageInfo' = <<currentPage', totalPages'>>
    /\ prevDisabled' = (currentPage' <= 1)
    /\ nextDisabled' = (currentPage' >= totalPages')

updateSearchInfo(data) ==
    searchInfo' =
        IF trim(data.search_query) # Empty
        THEN \* "Found n songs matching ..." or "No songs found matching ..."
             [kind |-> "matching", query |-> data.search_query]
        ELSE NoInfo

\* the fetch of a pending load for request r settles; newest tells whether
\* it is the most recently issued load or one issued before it
settles(r, newest) ==
    /\ BagIn(r, loads)
    /\ IF newest
       THEN latest = r
       ELSE CopiesIn(r, loads) > (IF latest = r THEN 1 ELSE 0)
    /\ loads' = loads (-) SetToBag({r})
    /\ latest' = IF newest THEN NoLoad ELSE latest

\* loadSongs after its await, response.ok with a body without error
LoadSucceeds(r, newest, data) ==
    /\ displaySongs(data)
    /\ updatePagination(data)
    /\ updateSearchInfo(data)
    /\ loading' = FALSE
    /\ settles(r, newest)
    /\ lastOp' = Op("loadSucceeds", IF newest THEN "latest" ELSE "stale", NoStatus)
    /\ UNCHANGED <<currentCollection, currentSearchQuery, searchInput, jobVars>>

displayError == tbody' = "error"

\* a catch block that issues the failed request again
LoadFails_Retries(r, newest, kind) ==
    /\ displayError
    /\ BagIn(r, loads)
    /\ IF newest
       THEN latest = r
       ELSE CopiesIn(r, loads) > (IF latest = r THEN 1 ELSE 0)
    /\ loading' = TRUE
    /\ loads' = loads
    /\ latest' = r
    /\ lastOp' = Op("loadFails", IF newest THEN "latest" ELSE "stale", NoStatus)
    /\ UNCHANGED <<viewFields, searchInput, searchInfo, pageInfo,
                   prevDisabled, nextDisabled, jobVars>>

\* a catch block that puts the view back on the first page
LoadFails_ResetsPage(r, newest, kind) ==
    /\ displayError
    /\ loading' = FALSE
    /\ settles(r, newest)
    /\ currentPage' = 1
    /\ totalPages' = 1
    /\ lastOp' = Op("loadFails", IF newest THEN "latest" ELSE "stale", NoStatus)
    /\ UNCHANGED <<currentCollection, currentSearchQuery, searchInput,
                   searchInfo, pageInfo, prevDisabled, nextDisabled, jobVars>>

\* loadSongs after its await: fetch rejected, response not ok, or a body
\* with an error: the catch block, then finally
LoadFails(r, newest, kind) ==
    /\ displayError
    /\ loading' = FALSE
    /\ settles(r, newest)
    /\ lastOp' = Op("loadFails", IF newest THEN "latest" ELSE "stale", NoStatus)
    /\ UNCHANGED <<viewFields, searchInput, searchInfo, pageInfo,
                   prevDisabled, nextDisabled, jobVars>>

\* updateStats after its await
StatsSettles(ok) ==
    /\ statsPending > 0
    /\ statsPending' = statsPending - 1
    /\ statsShown' = (ok \/ statsShown)
    /\ lastOp' = Op("statsSettles", IF ok THEN "ok" ELSE "transport", NoStatus)
    /\ UNCHANGED <<viewVars, autoUpdateInterval, triggerDisabled, statusShown,
                   notification, statusPending, triggerPending, timeouts,
                   failStreak>>

\* ---------------------------------------------------- the update monitor
\* updateAutoUpdateStatus up to its await: the status fetch is pending
updateAutoUpdateStatus(origin) ==
    /\ StatusCount < MaxStatusInFlight
    /\ statusPending' = [statusPending EXCEPT ![origin] = @ + 1]

\* the callback of setInterval (startAutoUpdateMonitoring) fires
Tick ==
    /\ autoUpdateInterval # Null
    /\ updateAutoUpdateStatus("ambient")
    /\ lastOp' = Op("tick", "", NoStatus)
    /\ UNCHANGED <<viewVars, autoUpdateInterval, triggerDisabled, statusShown,
                   notification, statsShown, statsPending, triggerPending,
                   timeouts, failStreak>>

\* click on refresh-status
RefreshClick ==
    /\ updateAutoUpdateStatus("refresh")
    /\ lastOp' = Op("refreshClick", "", NoStatus)
    /\ UNCHANGED <<viewVars, autoUpdateInterval, triggerDisabled, statusShown,
                   notification, statsShown, statsPending, triggerPending,
                   timeouts, failStreak>>

\* the callback of setTimeout(..., 2000) of an accepted trigger fires
TimeoutFires ==
    /\ timeouts > 0
    /\ timeouts' = timeouts - 1
    /\ updateAutoUpdateStatus("delayed")
    /\ lastOp' = Op("timeoutFires", "", NoStatus)
    /\ UNCHANGED <<viewVars, autoUpdateInterval, triggerDisabled, statusShown,
                   notification, statsShown, statsPending, triggerPending,
                   failStreak>>

displayAutoUpdateStatus(status) ==
    statusShown' = IF status.in_progress THEN "Updating"
                   ELSE IF status.enabled THEN "Active"
                   ELSE "Disabled"

\* an ok branch that polls again while the job is in progress
onStatus_Repolls(origin, status) ==
    /\ displayAutoUpdateStatus(status)
    /\ timeouts' = IF origin = "delayed" /\ status.in_progress
                   THEN timeouts + 1 ELSE timeouts
    /\ UNCHANGED <<viewVars, autoUpdateInterval, statsPending>>

\* an ok branch that refreshes the stats when a post-trigger fetch reports
\* the job done
onStatus_RefreshesAfterTrigger(origin, status) ==
    /\ displayAutoUpdateStatus(status)
    /\ statsPending' = IF origin = "delayed" /\ ~status.in_progress
                       THEN statsPending + 1 ELSE statsPending
    /\ UNCHANGED <<viewVars, autoUpdateInterval, timeouts>>

\* an ok branch that refreshes the stats whenever the job is reported done
onStatus_RefreshesWhenDone(origin, status) ==
    /\ displayAutoUpdateStatus(status)
    /\ statsPending' = IF ~status.in_progress
                       THEN statsPending + 1 ELSE statsPending
    /\ UNCHANGED <<viewVars, autoUpdateInterval, timeouts>>

\* updateAutoUpdateStatus after its await, response.ok
onStatus(origin, status) ==
    /\ displayAutoUpdateStatus(status)
    /\ UNCHANGED <<viewVars, autoUpdateInterval, statsPending, timeouts>>

\* a failure branch that gives up: clearInterval(this.autoUpdateInterval)
onStatusError_StopsLoop(origin, kind) ==
    /\ autoUpdateInterval' = Null
    /\ UNCHANGED <<viewVars, statsPending, timeouts, statusShown>>

\* updateAutoUpdateStatus after its await, fetch rejected or response not
\* ok: console.error alone
onStatusError(origin, kind) ==
    UNCHANGED <<viewVars, autoUpdateInterval, statsPending, timeouts,
                statusShown>>

StatusSucceeds(origin, status) ==
    /\ statusPending[origin] > 0
    /\ statusPending' = [statusPending EXCEPT ![origin] = @ - 1]
    /\ onStatus(origin, status)
    /\ failStreak' = 0
    /\ lastOp' = Op("statusSucceeds", origin, status)
    /\ UNCHANGED <<triggerDisabled, notification, statsShown, triggerPending>>

StatusFails(origin, kind) ==
    /\ statusPending[origin] > 0
    /\ statusPending' = [statusPending EXCEPT ![origin] = @ - 1]
    /\ onStatusError(origin, kind)
    /\ failStreak' = IF failStreak < MaxFailStreak THEN failStreak + 1
                     ELSE failStreak
    /\ lastOp' = Op("statusFails", origin, NoStatus)
    /\ UNCHANGED <<triggerDisabled, notification, statsShown, triggerPending>>

\* triggerManualUpdate up to its await; a disabled button fires no click
TriggerClick ==
    /\ ~triggerDisabled
    /\ timeouts < MaxTimeouts
    /\ triggerDisabled' = TRUE
    /\ triggerPending' = triggerPending + 1
    /\ lastOp' = Op("triggerClick", "", NoStatus)
    /\ UNCHANGED <<viewVars, autoUpdateInterval, statusShown, notification,
                   statsShown, statsPending, statusPending, timeouts,
                   failStreak>>

\* triggerManualUpdate after its await, response.ok, then finally
triggerAccepted ==
    /\ notification' = "success"
    /\ timeouts' = timeouts + 1
    /\ triggerDisabled' = FALSE
    /\ UNCHANGED statusPending

\* a failure branch that still schedules the delayed status fetch
triggerFailed_Schedules(kind) ==
    /\ notification' = "error"
    /\ triggerDisabled' = FALSE
    /\ timeouts' = timeouts + 1
    /\ UNCHANGED statusPending

\* a failure branch without the finally block: the button stays disabled
triggerFailed_StaysDisabled(kind) ==
    /\ notification' = "error"
    /\ UNCHANGED <<triggerDisabled, timeouts, statusPending>>

\* triggerManualUpdate after its await, fetch rejected or response not ok:
\* the catch block, then finally
triggerFailed(kind) ==
    /\ notification' = "error"
    /\ triggerDisabled' = FALSE
    /\ UNCHANGED <<timeouts, statusPending>>

TriggerAccepted ==
    /\ triggerPending > 0
    /\ triggerPending' = triggerPending - 1
    /\ triggerAccepted
    /\ lastOp' = Op("triggerAccepted", "", NoStatus)
    /\ UNCHANGED <<viewVars, autoUpdateInterval, statusShown, statsShown,
                   statsPending, failStreak>>

TriggerFails(kind) ==
    /\ triggerPending > 0
    /\ triggerPending' = triggerPending - 1
    /\ triggerFailed(kind)
    /\ lastOp' = Op("triggerFails", kind, NoStatus)
    /\ UNCHANGED <<viewVars, autoUpdateInterval, statusShown, statsShown,
                   statsPending, failStreak>>

\* -------------------------------------------------------- specifications
\* what the user does to the song view
ViewInput ==
    \/ \E collection \in Collections \cup {Undefined} : SwitchCollection(collection)
    \/ PrevPage
    \/ NextPage
    \/ \E text \in Texts : PerformSearch(text)
    \/ ClearSearch

\* a pending /api/songs fetch settles
LoadSettles ==
    \/ \E r \in BagToSet(loads) : \E newest \in BOOLEAN :
           \E data \in Responses(r) : LoadSucceeds(r, newest, data)
    \/ \E r \in BagToSet(loads) : \E newest \in BOOLEAN :
           \E kind \in FailureKinds \cup {"body"} : LoadFails(r, newest, kind)

\* what the user does to the update monitor
JobInput ==
    \/ RefreshClick
    \/ TriggerClick

StatusSettles ==
    \/ \E origin \in Origins : \E status \in Statuses : StatusSucceeds(origin, status)
    \/ \E origin \in Origins : \E kind \in FailureKinds : StatusFails(origin, kind)

TriggerSettles ==
    \/ TriggerAccepted
    \/ \E kind \in FailureKinds : TriggerFails(kind)

StatsSettle == \E ok \in BOOLEAN : StatsSettles(ok)

\* timers and fetches of the monitor
JobEvents ==
    \/ StatsSettle
    \/ Tick
    \/ TimeoutFires
    \/ StatusSettles
    \/ TriggerSettles

ViewNext == ViewInput \/ LoadSettles

JobNext == JobInput \/ JobEvents \/ LoadSettles

Next == ViewInput \/ LoadSettles \/ JobInput \/ JobEvents

\* The view's handlers leave the monitor's state alone and the monitor's
\* handlers leave the view's, so each half is also checked on its own.
Spec == Init /\ [][Next]_vars

\* the song view alone: the monitor stays as the constructor left it
ViewSpec == Init /\ [][ViewNext]_vars

\* the monitor alone: the user leaves the song view as it was mounted
JobSpec == Init /\ [][JobNext]_vars

\* a timer that is set fires, and a pending fetch settles
JobFairness ==
    /\ WF_vars(Tick)
    /\ WF_vars(TimeoutFires)
    /\ WF_vars(StatusSettles)
    /\ WF_vars(TriggerSettles)
    /\ WF_vars(StatsSettle)
    /\ WF_vars(LoadSettles)

JobFairSpec == JobSpec /\ JobFairness

\* ================================================================ claims
LastIs(name) == lastOp.op = name

\* post-trigger status fetches that are scheduled or pending
PostTrigger == timeouts + statusPending["delayed"]

\* the last handler was the ok branch of a status fetch of this origin
\* that reported the job done with a successful last outcome
DoneOk(origin) ==
    /\ LastIs("statusSucceeds")
    /\ lastOp.arg = origin
    /\ ~lastOp.status.in_progress
    /\ lastOp.status.last_ok

\* C1: a settled load is rendered only if it is the most recently issued
\* load; a response to a superseded load is never rendered.
C1_OnlyLatestRendered ==
    (LastIs("loadSucceeds") \/ LastIs("loadFails")) => lastOp.arg = "latest"

\* C2: prevPage at currentPage = 1 and nextPage at currentPage = totalPages
\* issue no load and leave currentCollection, currentPage, totalPages and
\* currentSearchQuery unchanged.
C2_PageEdgesAreNoOps ==
    [][((LastIs("prevPage")' /\ currentPage = 1)
           \/ (LastIs("nextPage")' /\ currentPage = totalPages))
         => (UNCHANGED viewFields /\ UNCHANGED <<loads, latest, loading>>)]_vars

C2_Witness ==
    /\ LastIs("nextPage")
    /\ lastOp.arg = "noop"
    /\ pageInfo # NoPageInfo
    /\ currentPage = totalPages
    /\ totalPages > 1

\* C3: once a result has been applied, 1 <= currentPage <= max(totalPages, 1)
\* in every state, whatever the order of clicks and responses.
C3_PageInRange ==
    pageInfo # NoPageInfo =>
        (1 <= currentPage /\ currentPage <= Max(totalPages, 1))

C3_Witness ==
    /\ LastIs("loadSucceeds")
    /\ lastOp.arg = "stale"
    /\ currentPage = MaxTotalPages
    /\ loads # EmptyBag

\* C4: right after switchCollection(x), currentCollection = x,
\* currentPage = 1 and currentSearchQuery is empty.
C4_SwitchResets ==
    LastIs("switchCollection") =>
        /\ currentCollection = lastOp.arg
        /\ currentPage = 1
        /\ currentSearchQuery = Empty

C4_Witness ==
    /\ LastIs("switchCollection")
    /\ currentCollection = "removed"
    /\ pageInfo[1] > 1
    /\ BagCardinality(loads) > 1
    /\ \E r \in BagToSet(loads) : r.search # Empty

\* the state clearSearch() leaves, and the one load it issues
Cleared ==
    /\ currentSearchQuery' = Empty
    /\ currentPage' = 1
    /\ searchInput' = Empty
    /\ searchInfo' = NoInfo
    /\ loading'
    /\ loads' = loads (+) SetToBag({[collection |-> currentCollection, page |-> 1,
                                     per_page |-> perPage, search |-> Empty]})
    /\ UNCHANGED <<currentCollection, totalPages, pageInfo, tbody>>

\* C5: a search whose trimmed text is empty has the effect of clearSearch():
\* the same view state and the same single load (current collection, page 1,
\* no search).
C5_EmptySearchIsClear ==
    [][((LastIs("performSearch")' /\ lastOp'.arg = "empty") \/ LastIs("clearSearch")')
         => Cleared]_vars

C5_Witness ==
    /\ LastIs("performSearch")
    /\ lastOp.arg = "empty"
    /\ pageInfo[1] > 1
    /\ latest = [collection |-> currentCollection, page |-> 1,
                 per_page |-> perPage, search |-> Empty]
    /\ BagCardinality(loads) > 1

C8_FailedTriggerSchedulesNothing ==
    [][LastIs("triggerFails")' =>
         /\ ~triggerDisabled'
         /\ notification' = "error"
         /\ timeouts' = timeouts
         /\ statusPending' = statusPending]_vars

C8_Witness ==
    /\ LastIs("triggerFails")
    /\ lastOp.arg = "http"
    /\ ~triggerDisabled
    /\ notification = "error"
    /\ PostTrigger = 0

\* C9: an ambient status fetch that reports the job done with a successful
\* outcome while no post-trigger fetch is scheduled or pending only renders
\* the job status: no stats fetch, no load, the view state unchanged.
C9_AmbientPollOnlyRendersStatus ==
    [][(DoneOk("ambient")' /\ PostTrigger = 0) =>
         /\ statusShown' = (IF lastOp'.status.enabled THEN "Active" ELSE "Disabled")
         /\ statsPending' = statsPending
         /\ UNCHANGED <<loads, latest, loading>>
         /\ UNCHANGED viewFields]_vars

C9_Witness ==
    /\ DoneOk("ambient")
    /\ PostTrigger = 0
    /\ statsPending = 0
    /\ loads = EmptyBag
    /\ statusShown = "Active"

\* C10: the ambient timer stays scheduled in every state, also after any
\* number of consecutive failed status fetches, and a tick issues a status
\* fetch.
C10_AmbientLoopNeverStops ==
    /\ autoUpdateInterval = IntervalId
    /\ LastIs("tick") => statusPending["ambient"] > 0

C10_Witness ==
    /\ failStreak = MaxFailStreak
    /\ LastIs("tick")
    /\ statusPending["ambient"] > 0

\* C11: at most one job-status fetch is in flight at any time: a tick, a
\* refresh click or a delayed refresh that comes while a status fetch is
\* still pending issues no request.
C11_OneStatusFetchInFlight == StatusCount <= 1

\* a load has just settled
LoadSettled == LastIs("loadSucceeds") \/ LastIs("loadFails")

\* C13: the completion of a superseded load, successful or failed, changes
\* nothing visible; the loading indication stays shown while the most
\* recently issued load is unresolved and only the completion of that load
\* clears it.
C13_SupersededCompletionInvisible ==
    [][/\ (LoadSettled' /\ lastOp'.arg = "stale") =>
            (UNCHANGED viewFields /\ UNCHANGED viewDom)
       /\ (loading /\ ~loading') => (LoadSettled' /\ lastOp'.arg = "latest")
       /\ (LoadSettled' /\ latest' # NoLoad) => loading']_vars

\* C14: currentCollection is one of the known collections in every state,
\* and no load is ever issued for a collection outside them: a
\* switchCollection with an unknown or undefined identifier changes nothing.
C14_CollectionIsKnown ==
    /\ currentCollection \in Collections
    /\ \A r \in BagToSet(loads) : r.collection \in Collections

\* the handlers of the user's clicks and key presses on the song view
UserOps == {"switchCollection", "prevPage", "nextPage", "performSearch",
            "clearSearch"}

\* C15: a failed load is never retried: the step in which a load fails
\* renders the error state, clears the loading indication and takes the
\* failed request out of the pending ones without issuing another, and
\* only a user action ever adds a pending load.
C15_FailedLoadNotRetried ==
    [][/\ LastIs("loadFails")' =>
            /\ tbody' = "error"
            /\ ~loading'
            /\ loads' \sqsubseteq loads
            /\ BagCardinality(loads') = BagCardinality(loads) - 1
       /\ ~(loads' \sqsubseteq loads) => lastOp'.op \in UserOps]_vars

C15_Witness ==
    /\ LastIs("loadFails")
    /\ lastOp.arg = "latest"
    /\ tbody = "error"
    /\ ~loading
    /\ loads = EmptyBag
    /\ currentPage > 1

\* the request that the view state stands for
ViewRequest ==
    [collection |-> currentCollection, page |-> currentPage,
     per_page |-> perPage, search |-> currentSearchQuery]

\* the last handler was an action that reloads the view: a switch to a
\* known collection, a search, a clear, or a page click that moved
Reloads ==
    \/ LastIs("switchCollection") /\ hasTab(lastOp.arg)
    \/ LastIs("performSearch")
    \/ LastIs("clearSearch")
    \/ (LastIs("prevPage") \/ LastIs("nextPage")) /\ lastOp.arg = "moved"

\* C16: the constructor and every reloading action issue exactly one load,
\* within the handler, for the collection, page, page size and search of
\* the view state the action leaves; a page click keeps the active search,
\* and a switch or a clear sends none.
C16_OneLoadForTheNewViewState ==
    /\ LastIs("constructor") =>
           (loads = SetToBag({ViewRequest}) /\ latest = ViewRequest)
    /\ [][Reloads' =>
            /\ loads' = loads (+) SetToBag({ViewRequest'})
            /\ latest' = ViewRequest'
            /\ loading'
            /\ (LastIs("prevPage")' \/ LastIs("nextPage")') =>
                   latest'.search = currentSearchQuery
            /\ (LastIs("switchCollection")' \/ LastIs("clearSearch")') =>
                   latest'.search = Empty]_vars

C16_Witness ==
    /\ LastIs("nextPage")
    /\ lastOp.arg = "moved"
    /\ latest = ViewRequest
    /\ latest.search # Empty
    /\ latest.page = 2
    /\ BagCardinality(loads) > 1

\* C17: the trigger button is disabled exactly while a trigger request is
\* in flight (disabled when it is sent, enabled again when it is accepted,
\* rejected or fails in transport), so at most one trigger request is in
\* flight at any time.
C17_TriggerDisabledWhileInFlight ==
    /\ triggerDisabled <=> (triggerPending > 0)
    /\ triggerPending <= 1

C17_Witness ==
    /\ LastIs("triggerClick")
    /\ triggerDisabled
    /\ triggerPending = 1
    /\ notification = "error"

\* C19: a load that completes with a failure leaves currentCollection,
\* currentPage, totalPages and currentSearchQuery as they were just before
\* it completed; a load that completes successfully applies the page and
\* the page count of its response and nothing else of the view state, and no
\* other completion changes them.
C19_FailedLoadKeepsViewState ==
    [][/\ LastIs("loadFails")' => UNCHANGED viewFields
       /\ LastIs("loadSucceeds")' =>
            /\ UNCHANGED <<currentCollection, currentSearchQuery>>
            /\ \E r \in BagToSet(loads) : \E data \in Responses(r) :
                   /\ currentPage' = data.page
                   /\ totalPages' = data.total_pages
            /\ pageInfo' = <<currentPage', totalPages'>>
       /\ (lastOp'.op \notin UserOps /\ ~(UNCHANGED viewFields)) =>
            LastIs("loadSucceeds")']_vars

C19_Witness ==
    /\ LastIs("loadFails")
    /\ tbody = "error"
    /\ currentPage = 2
    /\ pageInfo = <<1, 2>>
    /\ currentSearchQuery # Empty
    /\ currentCollection = "all"
====
